---- MODULE Spec2Model ----
(***************************************************************************)
(* Phrase-Forge: the spaced-repetition scheduling engine.                  *)
(*                                                                         *)
(* The persistent store (Dexie tables phrases and stats), the zustand      *)
(* phrase store (phrases, todaysPhrases, currentPhraseIndex, error,        *)
(* statsCache, statsCacheTimestamp) and the wall clock are the state.      *)
(* Every store action and service function is one action; a persistence    *)
(* failure of one of its awaits is an input of the action.                 *)
(*                                                                         *)
(* Time is counted in minutes since 1 January 00:00 of a non-leap year;    *)
(* the last minute of a day stands for 23:59:59.999.  Difficulties are     *)
(* counted in tenths (5 is 0.5).                                           *)
(***************************************************************************)
EXTENDS Integers, Sequences, FiniteSets, TLC

VARIABLES
    now,                \* the wall clock (new Date(), Date.now())
    dbPhrases,          \* db.phrases: id -> [nextReviewDate, reviewHistory]
    dbStats,            \* db.stats record 'main', or NoStats
    usedIds,            \* ids crypto.randomUUID() has handed out
    phrases,            \* store: in-memory copies <<[id, nextReviewDate]>>
    todaysPhrases,      \* store: ids of the loaded review queue
    currentPhraseIndex, \* store: 0-based cursor into todaysPhrases
    error,              \* store: error message or NoError
    statsCache,         \* store: cached snapshot or NoCache
    statsCacheTimestamp,\* store: clock value of the snapshot
    lastCall,           \* the last operation and what its caller saw
    ops,                \* operations performed in this session
    dbBackups,          \* db.backups: backupId -> the phrases table it saved
    dbCategories,       \* db.categories: the names of the stored categories, as a bag
    pc,                 \* async calls in flight: task -> the await it is suspended at
    locals,             \* async calls in flight: task -> its local variables
    reminderTimerId,    \* notificationService.reminderTimerId, or NoTimer
    timers              \* the pending setTimeout handles

vars == <<now, dbPhrases, dbStats, usedIds, phrases, todaysPhrases,
          currentPhraseIndex, error, statsCache, statsCacheTimestamp, lastCall,
          ops, dbBackups, dbCategories, pc, locals, reminderTimerId, timers>>

\* what the operations of the phrase store and the review service leave alone
elsewhere == <<dbBackups, dbCategories, pc, locals, reminderTimerId, timers>>

----------------------------------------------------------------------------
(* Bounds *)

\* a session performs at most MaxOps operations, within MaxDay + 1 days
MaxOps == 3
MaxDay == 1

\* crypto.randomUUID() never repeats: one fresh id per operation at most
PhraseIds == 1..MaxOps

\* an id no phrase was ever stored under
UnknownId == MaxOps + 1

----------------------------------------------------------------------------
(* Calendar and clock *)

MinutesPerDay == 24 * 60

MonthLengths == <<31, 28, 31, 30, 31, 30, 31, 31, 30, 31, 30, 31>>

RECURSIVE DaysBeforeMonth(_)
DaysBeforeMonth(m) == IF m = 1 THEN 0 ELSE DaysBeforeMonth(m - 1) + MonthLengths[m - 1]

DaysPerYear == 365

\* the month (1..12) and the day of the month (1..31) of day d; day 0 is
\* 1 January of the first year
MonthOf(d) ==
    LET doy == d % DaysPerYear
    IN  CHOOSE m \in 1..12 : DaysBeforeMonth(m) <= doy /\ doy < DaysBeforeMonth(m) + MonthLengths[m]

DayOfMonth(d) == (d % DaysPerYear) - DaysBeforeMonth(MonthOf(d)) + 1

DayOf(t) == t \div MinutesPerDay

MinuteOf(t) == t % MinutesPerDay

Min(a, b) == IF a <= b THEN a ELSE b

Max(a, b) == IF a >= b THEN a ELSE b

\* the session starts on 30 January, so that it crosses a month end
StartDay == DaysBeforeMonth(1) + 30 - 1

\* the instants of a day the clock visits: 00:00 and 23:59:59.999
DayMinutes == {0, MinutesPerDay - 1}

ClockValues == { d * MinutesPerDay + m : d \in StartDay..(StartDay + MaxDay), m \in DayMinutes }

\* date-fns addDays / addWeeks / addMonths: the time of day is kept
addDays(t, n) == t + n * MinutesPerDay

addWeeks(t, n) == addDays(t, n * 7)

addMonths_firstOfMonth(t, n) ==
    LET d == DayOf(t)
        months == (MonthOf(d) - 1) + n
        y == d \div DaysPerYear + months \div 12
        m == (months % 12) + 1
    IN  (y * DaysPerYear + DaysBeforeMonth(m)) * MinutesPerDay + MinuteOf(t)

\* the same day of the month n months later, or the last day of that month
\* when it is shorter
addMonths(t, n) ==
    LET d == DayOf(t)
        months == (MonthOf(d) - 1) + n
        y == d \div DaysPerYear + months \div 12
        m == (months % 12) + 1
        dom == Min(DayOfMonth(d), MonthLengths[m])
    IN  (y * DaysPerYear + DaysBeforeMonth(m) + dom - 1) * MinutesPerDay + MinuteOf(t)

EndOfDay_unset(t) == t

\* today.setHours(23, 59, 59, 999)
EndOfDay(t) == DayOf(t) * MinutesPerDay + (MinutesPerDay - 1)

----------------------------------------------------------------------------
(* Interval table and Next-Date Calculator (srs.service) *)

Intervals == {"tomorrow", "three_days", "one_week", "two_weeks", "one_month"}

\* the intervals the session's users pick: the shortest and the longest
PickedIntervals == {"tomorrow", "one_month"}

getDays(interval) ==
    CASE interval = "tomorrow" -> 1
      [] interval = "three_days" -> 3
      [] interval = "one_week" -> 7
      [] interval = "two_weeks" -> 14
      [] interval = "one_month" -> 30

calculateNextReviewDate_daysOnly(interval, t) == addDays(t, getDays(interval))

calculateNextReviewDate(interval, t) ==
    LET days == getDays(interval)
    IN  IF days <= 7 THEN addDays(t, days)
        ELSE IF days <= 14 THEN addWeeks(t, days \div 7)
        ELSE addMonths(t, days \div 30)

----------------------------------------------------------------------------
(* Dexie tables (db.service) *)

\* stats.first() of an empty table
NoStats == [undefined |-> TRUE]

NoCache == [null |-> TRUE]

NoError == "null"

InitialStats == [totalPhrases |-> 0, totalReviews |-> 0, lastReviewDate |-> -1]

ReviewRecord(date, interval, difficulty) ==
    [date |-> date, interval |-> interval, difficulty |-> difficulty]

\* an object spread {...row, ...changes}
Merge(row, changes) ==
    [f \in DOMAIN row |-> IF f \in DOMAIN changes THEN changes[f] ELSE row[f]]

\* Table.add in its own transaction: a rejected write stores nothing
phrasesAdd(tbl, id, row, ok) ==
    IF ok THEN [i \in DOMAIN tbl \cup {id} |-> IF i = id THEN row ELSE tbl[i]]
    ELSE tbl

phrasesUpdate_torn(tbl, id, changes, ok) ==
    IF id \notin DOMAIN tbl THEN tbl
    ELSE IF ok THEN [tbl EXCEPT ![id] = Merge(tbl[id], changes)]
    ELSE [tbl EXCEPT ![id] = Merge(tbl[id],
              [f \in DOMAIN changes \ {"nextReviewDate"} |-> changes[f]])]

\* Table.update(key, changes) in its own transaction: every field of
\* changes is written, or (rejected write, unknown key) none
phrasesUpdate(tbl, id, changes, ok) ==
    IF ok /\ id \in DOMAIN tbl
    THEN [tbl EXCEPT ![id] = Merge(tbl[id], changes)]
    ELSE tbl

\* Table.delete(key): deleting an unknown key succeeds and removes nothing
phrasesDelete(tbl, id, ok) ==
    IF ok THEN [i \in DOMAIN tbl \ {id} |-> tbl[i]] ELSE tbl

statsModify_dropped(stats, changes, ok) == stats

\* db.stats.where('id').equals('main').modify(...): no record, no change
statsModify(stats, changes, ok) ==
    IF ok /\ stats # NoStats THEN Merge(stats, changes) ELSE stats

\* where('nextReviewDate').belowOrEqual(bound): the matching keys
dueIds(tbl, bound) == { i \in DOMAIN tbl : tbl[i].nextReviewDate <= bound }

\* toArray() of an index query: by index key, then by primary key
RECURSIVE byNextReviewDate(_, _)
byNextReviewDate(tbl, ids) ==
    IF ids = {} THEN << >>
    ELSE LET first == CHOOSE i \in ids : \A j \in ids :
                          \/ tbl[i].nextReviewDate < tbl[j].nextReviewDate
                          \/ tbl[i].nextReviewDate = tbl[j].nextReviewDate /\ i <= j
         IN  <<first>> \o byNextReviewDate(tbl, ids \ {first})

getTodaysPhrases(tbl, t) == byNextReviewDate(tbl, dueIds(tbl, EndOfDay(t)))

\* which write of an operation the store rejects: none (0), its first or
\* its second
Rejections == 0..2

found_unchecked(tbl, phraseId) == TRUE

\* if (!phrase) throw new Error('Phrase not found')
found(tbl, phraseId) == phraseId \in DOMAIN tbl

appendReview_overwrite(history, record) ==
    IF history = << >> THEN <<record>> ELSE [history EXCEPT ![Len(history)] = record]

\* [...phrase.reviewHistory, {date, interval, difficulty}]
appendReview(history, record) == Append(history, record)

\* updatePhraseReviewDate(phraseId, nextReviewDate, interval, difficulty)
\* at clock t; fail is the write that rejects: the phrases.update (1), the
\* stats.modify (2) or none (0)
updatePhraseReviewDate(tbl, stats, phraseId, nextReviewDate, interval, difficulty, t, fail) ==
    IF ~found(tbl, phraseId)
    THEN [phrases |-> tbl, stats |-> stats, result |-> "Phrase not found"]
    ELSE LET written == phrasesUpdate(tbl, phraseId,
                 [nextReviewDate |-> nextReviewDate,
                  reviewHistory |-> appendReview(tbl[phraseId].reviewHistory,
                                                 ReviewRecord(t, interval, difficulty))],
                 fail # 1)
         IN  IF fail = 1
             THEN [phrases |-> written, stats |-> stats, result |-> "error"]
             ELSE [phrases |-> written,
                   stats |-> statsModify(stats,
                       IF stats = NoStats THEN NoStats
                       ELSE [totalReviews |-> stats.totalReviews + 1, lastReviewDate |-> t],
                       fail # 2),
                   result |-> IF fail = 2 THEN "error" ELSE "ok"]

----------------------------------------------------------------------------
(* Statistics Aggregator (phrase.store getStats) *)

CACHE_DURATION == 5

cacheValid_inclusive(cache, timestamp, t) ==
    cache # NoCache /\ t - timestamp <= CACHE_DURATION

\* state.statsCache && Date.now() - state.statsCacheTimestamp < CACHE_DURATION
cacheValid(cache, timestamp, t) ==
    cache # NoCache /\ t - timestamp < CACHE_DURATION

Count(tbl, P(_)) == Cardinality({ i \in DOMAIN tbl : P(tbl[i]) })

\* the host's time zone, in minutes east of UTC: New York, UTC, Tokyo
UtcOffsets == {-300, 0, 540}

\* date.toISOString().split('T')[0]: the UTC calendar day of local time t
toISODate(t, offset) == (t - offset) \div MinutesPerDay

\* the trailing 30 local days, oldest first: for each the local midnight
\* date, its label and the phrases with a record in [date, nextDate)
dailyStats(tbl, t, offset) ==
    [k \in 1..30 |->
        LET i == 30 - k
            date == (DayOf(t) - i) * MinutesPerDay
            nextDate == date + MinutesPerDay
        IN  [date |-> toISODate(date, offset),
             count |-> Count(tbl, LAMBDA p :
                           \E r \in DOMAIN p.reviewHistory :
                               /\ p.reviewHistory[r].date >= date
                               /\ p.reviewHistory[r].date < nextDate)]]

masteryLevels_gap(tbl) ==
    [beginner |-> Count(tbl, LAMBDA p : Len(p.reviewHistory) <= 2),
     intermediate |-> Count(tbl, LAMBDA p : Len(p.reviewHistory) > 2 /\ Len(p.reviewHistory) < 5),
     advanced |-> Count(tbl, LAMBDA p : Len(p.reviewHistory) > 5)]

masteryLevels(tbl) ==
    [beginner |-> Count(tbl, LAMBDA p : Len(p.reviewHistory) <= 2),
     intermediate |-> Count(tbl, LAMBDA p : Len(p.reviewHistory) > 2 /\ Len(p.reviewHistory) <= 5),
     advanced |-> Count(tbl, LAMBDA p : Len(p.reviewHistory) > 5)]

\* new Date(year, month, 1): local midnight of the first day of t's month
firstDayOfMonth(t) ==
    LET d == DayOf(t)
    IN  ((d \div DaysPerYear) * DaysPerYear + DaysBeforeMonth(MonthOf(d))) * MinutesPerDay

\* new Date(year, month + 1, 0): local midnight of the last day of t's month
lastDayOfMonth(t) ==
    firstDayOfMonth(t) + (MonthLengths[MonthOf(DayOf(t))] - 1) * MinutesPerDay

\* phrases.reduce((sum, phrase) => sum + f[phrase], 0)
RECURSIVE SumOver(_, _)
SumOver(f, ids) ==
    IF ids = {} THEN 0
    ELSE LET id == CHOOSE i \in ids : TRUE
         IN  f[id] + SumOver(f, ids \ {id})

monthlyReviews(tbl, t) ==
    SumOver([i \in DOMAIN tbl |->
                Cardinality({ r \in DOMAIN tbl[i].reviewHistory :
                                  /\ tbl[i].reviewHistory[r].date >= firstDayOfMonth(t)
                                  /\ tbl[i].reviewHistory[r].date <= lastDayOfMonth(t) })],
            DOMAIN tbl)

\* latestReview?.difficulty || 0.5, in tenths: no record, or a falsy
\* difficulty, gives 0.5
latestDifficulty(p) ==
    IF p.reviewHistory = << >> THEN 5
    ELSE LET difficulty == p.reviewHistory[Len(p.reviewHistory)].difficulty
         IN  IF difficulty = 0 THEN 5 ELSE difficulty

\* Math.round(x) of the fraction n / d, d > 0
round(n, d) == (2 * n + d) \div (2 * d)

\* Math.round(averageMastery * 100), averageMastery the mean of the latest
\* difficulties, 0 for an empty collection
averageMastery(tbl) ==
    LET n == Cardinality(DOMAIN tbl)
    IN  IF n > 0 THEN round(10 * SumOver([i \in DOMAIN tbl |-> latestDifficulty(tbl[i])], DOMAIN tbl), n)
        ELSE 0

\* the snapshot getStats builds at local time t: the persisted counters and
\* the derived figures
computeStats(stats, tbl, t, offset) ==
    [counters |-> stats,
     dailyStats |-> dailyStats(tbl, t, offset),
     masteryLevels |-> masteryLevels(tbl),
     monthlyReviews |-> monthlyReviews(tbl, t),
     averageMastery |-> averageMastery(tbl)]

----------------------------------------------------------------------------
(* Initial state: a freshly initialised database and store *)

\* the names of the default categories of initializeDB
DefaultCategories == {"medical", "daily"}

NoTimer == 0

\* the default categories once each, no backup, no async call in flight, no
\* reminder
Quiet ==
    /\ dbBackups = << >>
    /\ dbCategories = [c \in DefaultCategories |-> 1]
    /\ pc = << >>
    /\ locals = << >>
    /\ reminderTimerId = NoTimer
    /\ timers = << >>

Init ==
    /\ now = StartDay * MinutesPerDay
    /\ dbPhrases = << >>
    /\ dbStats = InitialStats
    /\ usedIds = {}
    /\ phrases = << >>
    /\ todaysPhrases = << >>
    /\ currentPhraseIndex = 0
    /\ error = NoError
    /\ statsCache = NoCache
    /\ statsCacheTimestamp = 0
    /\ lastCall = [op |-> "init", id |-> 0, result |-> "ok", args |-> << >>]
    /\ ops = 0
    /\ Quiet

\* one more operation of the session
Op == ops < MaxOps /\ ops' = ops + 1

Call(op, id, result) == [op |-> op, id |-> id, result |-> result, args |-> << >>]

CallWith(op, id, result, args) == [op |-> op, id |-> id, result |-> result, args |-> args]

\* time passes
Tick ==
    /\ \E t \in ClockValues :
           /\ t > now
           /\ \A u \in ClockValues : u > now => t <= u
           /\ now' = t
    /\ lastCall' = Call("tick", 0, "ok")
    /\ UNCHANGED <<ops, dbPhrases, dbStats, usedIds, phrases, todaysPhrases,
                   currentPhraseIndex, error, statsCache, statsCacheTimestamp, elsewhere>>

FilterSeq(s, P(_)) == SelectSeq(s, P)

\* store.loadPhrases
loadPhrases ==
    /\ Op
    /\ phrases' = [k \in 1..Cardinality(DOMAIN dbPhrases) |->
           LET id == CHOOSE i \in DOMAIN dbPhrases :
                         Cardinality({j \in DOMAIN dbPhrases : j < i}) = k - 1
           IN  [id |-> id, nextReviewDate |-> dbPhrases[id].nextReviewDate]]
    /\ error' = NoError
    /\ lastCall' = Call("loadPhrases", 0, "ok")
    /\ UNCHANGED <<now, dbPhrases, dbStats, usedIds, todaysPhrases,
                   currentPhraseIndex, statsCache, statsCacheTimestamp, elsewhere>>

\* store.loadTodaysPhrases
loadTodaysPhrases ==
    /\ Op
    /\ todaysPhrases' = getTodaysPhrases(dbPhrases, now)
    /\ currentPhraseIndex' = 0
    /\ error' = NoError
    /\ lastCall' = Call("loadTodaysPhrases", 0, "ok")
    /\ UNCHANGED <<now, dbPhrases, dbStats, usedIds, phrases,
                   statsCache, statsCacheTimestamp, elsewhere>>

\* store.addPhrase as AddPhraseModal.handleSubmit calls it; fail is the
\* write that rejects: the phrases.add (1), the stats.modify (2) or none (0)
addPhrase(fail) ==
    \E id \in PhraseIds \ usedIds :
        /\ Op
        /\ id = Cardinality(usedIds) + 1
        /\ usedIds' = usedIds \cup {id}
        /\ LET newPhrase == [nextReviewDate |-> calculateNextReviewDate("tomorrow", now),
                             reviewHistory |-> << >>]
           IN  /\ dbPhrases' = phrasesAdd(dbPhrases, id, newPhrase, fail # 1)
               /\ phrases' = IF fail = 1 THEN phrases
                             ELSE Append(phrases, [id |-> id, nextReviewDate |-> newPhrase.nextReviewDate])
        /\ dbStats' = IF fail = 1 THEN dbStats
                      ELSE statsModify(dbStats,
                               IF dbStats = NoStats THEN NoStats
                               ELSE [totalPhrases |-> dbStats.totalPhrases + 1],
                               fail # 2)
        /\ statsCache' = IF fail = 0 THEN NoCache ELSE statsCache
        /\ error' = IF fail = 0 THEN error ELSE "error"
        /\ lastCall' = Call("addPhrase", id, IF fail = 0 THEN "ok" ELSE "error")
        /\ UNCHANGED <<now, todaysPhrases, currentPhraseIndex, statsCacheTimestamp, elsewhere>>

\* store.updatePhrase(id, updates), updates carrying nextReviewDate
updatePhrase(id, nextReviewDate, ok) ==
    /\ Op
    /\ dbPhrases' = phrasesUpdate(dbPhrases, id, [nextReviewDate |-> nextReviewDate], ok)
    /\ phrases' = IF ok
                  THEN [k \in DOMAIN phrases |->
                           IF phrases[k].id = id
                           THEN [phrases[k] EXCEPT !.nextReviewDate = nextReviewDate]
                           ELSE phrases[k]]
                  ELSE phrases
    /\ statsCache' = IF ok THEN NoCache ELSE statsCache
    /\ error' = IF ok THEN error ELSE "error"
    /\ lastCall' = Call("updatePhrase", id, IF ok THEN "ok" ELSE "error")
    /\ UNCHANGED <<now, dbStats, usedIds, todaysPhrases, currentPhraseIndex,
                   statsCacheTimestamp, elsewhere>>

\* EditPhraseModal.handleSubmit: the phrase prop is an in-memory copy; the
\* form keeps its nextReviewDate unless an interval button was pressed
EditPhraseSubmit ==
    \E k \in DOMAIN phrases, choice \in PickedIntervals \cup {"keep"}, fail \in 0..1 :
        updatePhrase(phrases[k].id,
                     IF choice = "keep" THEN phrases[k].nextReviewDate
                     ELSE calculateNextReviewDate(choice, now),
                     fail = 0)

\* store.deletePhrase(id); fail is the write that rejects: the
\* phrases.delete (1), the stats.modify (2) or none (0)
deletePhrase(id, fail) ==
    /\ Op
    /\ dbPhrases' = phrasesDelete(dbPhrases, id, fail # 1)
    /\ phrases' = IF fail = 1 THEN phrases
                  ELSE FilterSeq(phrases, LAMBDA p : p.id # id)
    /\ dbStats' = IF fail = 1 THEN dbStats
                  ELSE statsModify(dbStats,
                           IF dbStats = NoStats THEN NoStats
                           ELSE [totalPhrases |-> dbStats.totalPhrases - 1],
                           fail # 2)
    /\ statsCache' = IF fail = 0 THEN NoCache ELSE statsCache
    /\ error' = IF fail = 0 THEN error ELSE "error"
    /\ lastCall' = Call("deletePhrase", id, IF fail = 0 THEN "ok" ELSE "error")
    /\ UNCHANGED <<now, usedIds, todaysPhrases, currentPhraseIndex, statsCacheTimestamp, elsewhere>>

moveToNextPhrase_unguarded ==
    /\ Op
    /\ currentPhraseIndex' = currentPhraseIndex + 1
    /\ lastCall' = Call("moveToNextPhrase", 0, "ok")
    /\ UNCHANGED <<now, dbPhrases, dbStats, usedIds, phrases, todaysPhrases,
                   error, statsCache, statsCacheTimestamp, elsewhere>>

\* store.moveToNextPhrase
moveToNextPhrase ==
    /\ Op
    /\ currentPhraseIndex' = IF currentPhraseIndex < Len(todaysPhrases) - 1
                             THEN currentPhraseIndex + 1
                             ELSE currentPhraseIndex
    /\ lastCall' = Call("moveToNextPhrase", 0, "ok")
    /\ UNCHANGED <<now, dbPhrases, dbStats, usedIds, phrases, todaysPhrases,
                   error, statsCache, statsCacheTimestamp, elsewhere>>

removeReviewedPhrase_kept(queue, index, phraseId) ==
    [todaysPhrases |-> queue, currentPhraseIndex |-> index]

\* store.removeReviewedPhrase(phraseId): the new queue and cursor
removeReviewedPhrase(queue, index, phraseId) ==
    LET newTodaysPhrases == FilterSeq(queue, LAMBDA i : i # phraseId)
        newIndex == Min(index, Len(newTodaysPhrases) - 1)
    IN  [todaysPhrases |-> newTodaysPhrases, currentPhraseIndex |-> Max(0, newIndex)]

\* the default of the difficulty parameter
DefaultDifficulty == 5

\* an optional argument is the empty set or a singleton
OrDefault(opt, default) == IF opt = {} THEN default ELSE CHOOSE d \in opt : TRUE

\* the difficulty a direct caller passes: none, 0 or 1.5
DifficultyArgs == {{}, {0}, {15}}

\* the card's selectedDifficulty: null, or 0.8 (its third button)
SelectedDifficulties == {{}, {8}}

\* a call of updatePhraseReviewDate(id, calculateNextReviewDate(interval), interval[, difficulty])
RecordReview(id, interval, difficulty, fail) ==
    /\ Op
    /\ LET r == updatePhraseReviewDate(dbPhrases, dbStats, id,
                    calculateNextReviewDate(interval, now), interval,
                    OrDefault(difficulty, DefaultDifficulty), now, fail)
       IN  /\ dbPhrases' = r.phrases
           /\ dbStats' = r.stats
           /\ lastCall' = CallWith("updatePhraseReviewDate", id, r.result,
                               [interval |-> interval, difficulty |-> difficulty])
    /\ UNCHANGED <<now, usedIds, phrases, todaysPhrases, currentPhraseIndex,
                   error, statsCache, statsCacheTimestamp, elsewhere>>

\* ReviewCard.handleIntervalSelect on the card under the cursor
handleIntervalSelect(interval, selectedDifficulty, fail) ==
    /\ Op
    /\ currentPhraseIndex < Len(todaysPhrases)
    /\ LET id == todaysPhrases[currentPhraseIndex + 1]
           difficulty == OrDefault(selectedDifficulty, 5)
           nextReviewDate == calculateNextReviewDate(interval, now)
           r == updatePhraseReviewDate(dbPhrases, dbStats, id, nextReviewDate,
                                       interval, difficulty, now, fail)
           q == removeReviewedPhrase(todaysPhrases, currentPhraseIndex, id)
       IN  /\ dbPhrases' = r.phrases
           /\ dbStats' = r.stats
           /\ todaysPhrases' = IF r.result = "ok" THEN q.todaysPhrases ELSE todaysPhrases
           /\ currentPhraseIndex' = IF r.result = "ok" THEN q.currentPhraseIndex
                                    ELSE currentPhraseIndex
           /\ lastCall' = CallWith("updatePhraseReviewDate", id, r.result,
                               [interval |-> interval, difficulty |-> {difficulty}])
    /\ UNCHANGED <<now, usedIds, phrases, error, statsCache, statsCacheTimestamp, elsewhere>>

\* store.getStats on a host whose time zone is offset; what it returns is
\* the snapshot the store holds afterwards
getStats(offset) ==
    /\ Op
    /\ IF cacheValid(statsCache, statsCacheTimestamp, now)
       THEN /\ lastCall' = Call("getStats", 0, "cached")
            /\ UNCHANGED <<statsCache, statsCacheTimestamp>>
       ELSE LET result == computeStats(dbStats, dbPhrases, now, offset)
            IN  /\ statsCache' = result
                /\ statsCacheTimestamp' = now
                /\ lastCall' = Call("getStats", 0, "computed")
    /\ UNCHANGED <<now, dbPhrases, dbStats, usedIds, phrases, todaysPhrases,
                   currentPhraseIndex, error, elsewhere>>

----------------------------------------------------------------------------
(* The application *)

AddPhraseSubmit == \E fail \in Rejections : addPhrase(fail)

EditPhraseDelete ==
    \E k \in DOMAIN phrases, fail \in Rejections :
        deletePhrase(phrases[k].id, fail)

\* store.updatePhrase / store.deletePhrase for a phrase that is no longer
\* stored (the dialog still shows a row another tab on the same database
\* has deleted)
UpdateCall == updatePhrase(UnknownId, calculateNextReviewDate("tomorrow", now), TRUE)

DeleteCall == deletePhrase(UnknownId, 0)

ChroniclePage == \E offset \in UtcOffsets : getStats(offset)

ReviewCall ==
    \E id \in DOMAIN dbPhrases \cup {UnknownId}, interval \in PickedIntervals,
       difficulty \in DifficultyArgs,
       fail \in Rejections :
        RecordReview(id, interval, difficulty, fail)

ReviewCardSelect ==
    \E interval \in PickedIntervals, sel \in SelectedDifficulties,
       fail \in Rejections :
        handleIntervalSelect(interval, sel, fail)

Next ==
    \/ Tick
    \/ loadPhrases
    \/ loadTodaysPhrases
    \/ AddPhraseSubmit
    \/ EditPhraseSubmit
    \/ EditPhraseDelete
    \/ UpdateCall
    \/ DeleteCall
    \/ ReviewCall
    \/ ReviewCardSelect
    \/ ChroniclePage

Spec == Init /\ [][Next]_vars

----------------------------------------------------------------------------
(* Adaptive Interval Recommender (srs.service) *)

\* a number as a fraction; difficulties are tenths
Frac(n, d) == [num |-> n, den |-> d]

FracGE(a, b) == a.num * b.den >= b.num * a.den

RECURSIVE SumDifficulty(_)
SumDifficulty(reviews) ==
    IF reviews = << >> THEN 0
    ELSE reviews[1].difficulty + SumDifficulty(Tail(reviews))

recentReviews_whole(reviewHistory) == reviewHistory

\* reviewHistory.slice(-5)
recentReviews(reviewHistory) ==
    SubSeq(reviewHistory, Max(1, Len(reviewHistory) - 4), Len(reviewHistory))

\* 1 - avgDifficulty, avgDifficulty the mean of the recent reviews
calculateSuccessRate(reviewHistory) ==
    IF Len(reviewHistory) = 0 THEN Frac(0, 1)
    ELSE LET recent == recentReviews(reviewHistory)
             avgDifficulty == Frac(SumDifficulty(recent), 10 * Len(recent))
         IN  Frac(avgDifficulty.den - avgDifficulty.num, avgDifficulty.den)

\* the switch of the high-success branch
longerInterval(interval) ==
    CASE interval = "tomorrow" -> "three_days"
      [] interval = "three_days" -> "one_week"
      [] interval = "one_week" -> "two_weeks"
      [] interval \in {"two_weeks", "one_month"} -> "one_month"
      [] OTHER -> "tomorrow"

\* the switch of the low-success branch
shorterInterval(interval) ==
    CASE interval = "one_month" -> "two_weeks"
      [] interval = "two_weeks" -> "one_week"
      [] interval = "one_week" -> "three_days"
      [] interval \in {"three_days", "tomorrow"} -> "tomorrow"
      [] OTHER -> "tomorrow"

getRecommendedInterval_strict(reviewHistory) ==
    IF Len(reviewHistory) = 0 THEN "tomorrow"
    ELSE LET lastReview == reviewHistory[Len(reviewHistory)]
             successRate == calculateSuccessRate(reviewHistory)
         IN  IF ~FracGE(Frac(9, 10), successRate) THEN longerInterval(lastReview.interval)
             ELSE IF FracGE(successRate, Frac(7, 10)) THEN lastReview.interval
             ELSE shorterInterval(lastReview.interval)

getRecommendedInterval(reviewHistory) ==
    IF Len(reviewHistory) = 0 THEN "tomorrow"
    ELSE LET lastReview == reviewHistory[Len(reviewHistory)]
             successRate == calculateSuccessRate(reviewHistory)
         IN  IF FracGE(successRate, Frac(9, 10)) THEN longerInterval(lastReview.interval)
             ELSE IF FracGE(successRate, Frac(7, 10)) THEN lastReview.interval
             ELSE shorterInterval(lastReview.interval)

\* the recommender applied to histories of up to MaxRecLen records
MaxRecLen == 3

\* stored interval values: the five names and one the table does not know
\* (updatePhraseReviewDate stores any string, interval as any)
StoredIntervals == Intervals \cup {"two_days"}

\* stored difficulties: 0, 0.1, 0.3, 0.5, 1
StoredDifficulties == {0, 1, 3, 5, 10}

RecHistories ==
    UNION { [1..n -> { ReviewRecord(StartDay * MinutesPerDay, i, d) :
                           i \in StoredIntervals, d \in StoredDifficulties }] :
            n \in 0..MaxRecLen }

\* one stored phrase whose history is any of RecHistories
InitRecommender ==
    /\ now = StartDay * MinutesPerDay
    /\ \E h \in RecHistories :
           dbPhrases = [i \in {1} |-> [nextReviewDate |-> now, reviewHistory |-> h]]
    /\ dbStats = InitialStats
    /\ usedIds = {1}
    /\ phrases = << >>
    /\ todaysPhrases = << >>
    /\ currentPhraseIndex = 0
    /\ error = NoError
    /\ statsCache = NoCache
    /\ statsCacheTimestamp = 0
    /\ lastCall = [op |-> "init", id |-> 0, result |-> "ok", args |-> << >>]
    /\ ops = 0
    /\ Quiet

\* getRecommendedInterval(phrase.reviewHistory) for a stored phrase
Recommend ==
    \E id \in DOMAIN dbPhrases :
        /\ lastCall' = Call("getRecommendedInterval", id,
                            getRecommendedInterval(dbPhrases[id].reviewHistory))
        /\ UNCHANGED <<ops, now, dbPhrases, dbStats, usedIds, phrases, todaysPhrases,
                       currentPhraseIndex, error, statsCache, statsCacheTimestamp, elsewhere>>

NextRecommender == Recommend

SpecRecommender == InitRecommender /\ [][NextRecommender]_vars

----------------------------------------------------------------------------
(* The recommender on histories longer than its window *)

\* histories of up to MaxWindowLen records
MaxWindowLen == 6

\* two intervals and the two extreme difficulties: with them a window of
\* five records reaches each of the three branches
WindowRecords ==
    { ReviewRecord(StartDay * MinutesPerDay, i, d) : i \in {"tomorrow", "one_week"}, d \in {0, 10} }

WindowHistories == UNION { [1..n -> WindowRecords] : n \in 0..MaxWindowLen }

InitWindow ==
    /\ now = StartDay * MinutesPerDay
    /\ \E h \in WindowHistories :
           dbPhrases = [i \in {1} |-> [nextReviewDate |-> now, reviewHistory |-> h]]
    /\ dbStats = InitialStats
    /\ usedIds = {1}
    /\ phrases = << >>
    /\ todaysPhrases = << >>
    /\ currentPhraseIndex = 0
    /\ error = NoError
    /\ statsCache = NoCache
    /\ statsCacheTimestamp = 0
    /\ lastCall = [op |-> "init", id |-> 0, result |-> "ok", args |-> << >>]
    /\ ops = 0
    /\ Quiet

NextWindow == Recommend

SpecWindow == InitWindow /\ [][NextWindow]_vars

----------------------------------------------------------------------------
(* The review queue: a loaded queue worked through with the review card *)

\* the numbers of phrases of the stored collection
QueueSizes == 0..3

\* when a stored phrase is due, seen from the session start: since
\* yesterday, later today, tomorrow
DueDates(t) == {t - MinutesPerDay, EndOfDay(t), EndOfDay(t) + 1}

\* a stored collection of never reviewed phrases, its due phrases loaded
\* into the queue
InitQueue ==
    /\ now = StartDay * MinutesPerDay
    /\ \E n \in QueueSizes : \E due \in [1..n -> DueDates(now)] :
           /\ dbPhrases = [i \in 1..n |->
                  [nextReviewDate |-> due[i], reviewHistory |-> << >>]]
           /\ dbStats = [InitialStats EXCEPT !.totalPhrases = n]
           /\ usedIds = 1..n
           /\ phrases = [i \in 1..n |-> [id |-> i, nextReviewDate |-> due[i]]]
           /\ todaysPhrases = getTodaysPhrases(dbPhrases, now)
    /\ currentPhraseIndex = 0
    /\ error = NoError
    /\ statsCache = NoCache
    /\ statsCacheTimestamp = 0
    /\ lastCall = [op |-> "init", id |-> 0, result |-> "ok", args |-> << >>]
    /\ ops = 0
    /\ Quiet

\* the review card with any of its five interval buttons, no difficulty
\* selected, every write accepted
ReviewCardSelectAny ==
    \E interval \in Intervals : handleIntervalSelect(interval, {}, 0)

NextQueue ==
    \/ Tick
    \/ loadTodaysPhrases
    \/ moveToNextPhrase
    \/ ReviewCardSelectAny

SpecQueue == InitQueue /\ [][NextQueue]_vars

----------------------------------------------------------------------------
(* Next-Date Calculator on every day of the year *)

\* the reference times: 00:00 and 23:59:59.999 of every day of a year
CalendarTimes == { d * MinutesPerDay + m : d \in 0..(DaysPerYear - 1), m \in DayMinutes }

InitCalendar ==
    /\ now \in CalendarTimes
    /\ dbPhrases = << >>
    /\ dbStats = InitialStats
    /\ usedIds = {}
    /\ phrases = << >>
    /\ todaysPhrases = << >>
    /\ currentPhraseIndex = 0
    /\ error = NoError
    /\ statsCache = NoCache
    /\ statsCacheTimestamp = 0
    /\ lastCall = [op |-> "init", id |-> 0, result |-> "ok", args |-> << >>]
    /\ ops = 0
    /\ Quiet

\* calculateNextReviewDate(interval) at clock now
Schedule ==
    \E interval \in Intervals :
        /\ lastCall' = CallWith("calculateNextReviewDate", 0, "ok",
                            [interval |-> interval,
                             nextReviewDate |-> calculateNextReviewDate(interval, now)])
        /\ UNCHANGED <<ops, now, dbPhrases, dbStats, usedIds, phrases, todaysPhrases,
                       currentPhraseIndex, error, statsCache, statsCacheTimestamp, elsewhere>>

NextCalendar == Schedule

SpecCalendar == InitCalendar /\ [][NextCalendar]_vars

----------------------------------------------------------------------------
(* Statistics Aggregator on stored collections, minute by minute *)

\* the stored phrases have up to MaxHistory records
MaxHistory == 6

\* the instants the clock visits: the session start, and the last minute
\* before and the first minute at which a snapshot of the start has expired
StatsClock == { StartDay * MinutesPerDay + m : m \in {0, CACHE_DURATION - 1, CACHE_DURATION} }

\* the numbers of phrases a stored collection has
StoredCounts == 0..2

\* n records made at time t
RecordsAt(n, t) == [k \in 1..n |-> ReviewRecord(t, "tomorrow", DefaultDifficulty)]

\* a store of 0 to 2 phrases, each reviewed up to MaxHistory times
\* at session start, loaded into memory
InitStats ==
    /\ now = StartDay * MinutesPerDay
    /\ \E n \in StoredCounts : \E lens \in [1..n -> 0..MaxHistory] :
           /\ dbPhrases = [i \in 1..n |->
                  [nextReviewDate |-> calculateNextReviewDate("tomorrow", now),
                   reviewHistory |-> RecordsAt(lens[i], now)]]
           /\ dbStats = [totalPhrases |-> n,
                         totalReviews |-> SumOver(lens, 1..n),
                         lastReviewDate |-> IF SumOver(lens, 1..n) > 0 THEN now ELSE -1]
           /\ usedIds = 1..n
           /\ phrases = [i \in 1..n |->
                  [id |-> i, nextReviewDate |-> calculateNextReviewDate("tomorrow", now)]]
    /\ todaysPhrases = << >>
    /\ currentPhraseIndex = 0
    /\ error = NoError
    /\ statsCache = NoCache
    /\ statsCacheTimestamp = 0
    /\ lastCall = [op |-> "init", id |-> 0, result |-> "ok", args |-> << >>]
    /\ ops = 0
    /\ Quiet

\* minutes pass
Elapse ==
    /\ \E t \in StatsClock :
           /\ t > now
           /\ \A u \in StatsClock : u > now => t <= u
           /\ now' = t
    /\ lastCall' = Call("tick", 0, "ok")
    /\ UNCHANGED <<ops, dbPhrases, dbStats, usedIds, phrases, todaysPhrases,
                   currentPhraseIndex, error, statsCache, statsCacheTimestamp, elsewhere>>

NextStats ==
    \/ Elapse
    \/ ChroniclePage
    \/ EditPhraseDelete

SpecStats == InitStats /\ [][NextStats]_vars

----------------------------------------------------------------------------
(* Application start on a new database (initializeDB, useAppInitializer) *)

\* the awaits of initializeDB that the run can end at: none, categories.count,
\* categories.bulkAdd, stats.count, stats.add
InitSteps == 0..4

RECURSIVE categoriesCount(_, _)
categoriesCount(tbl, names) ==
    IF names = {} THEN 0
    ELSE LET c == CHOOSE x \in names : TRUE
         IN  tbl[c] + categoriesCount(tbl, names \ {c})

\* categories.bulkAdd(defaultCategories): each record under a new random id
categoriesBulkAdd(tbl) == [c \in DOMAIN tbl |-> tbl[c] + 1]

\* the categories table after initializeDB
initializeDB_categories(cats, fail) ==
    IF fail = 1 \/ categoriesCount(cats, DOMAIN cats) # 0 THEN cats
    ELSE IF fail = 2 THEN cats
    ELSE categoriesBulkAdd(cats)

\* the stats table after initializeDB: the 'main' record is created only in
\* the branch that found no category
initializeDB_stats(cats, stats, fail) ==
    IF fail = 1 \/ categoriesCount(cats, DOMAIN cats) # 0 THEN stats
    ELSE IF fail \in {2, 3} THEN stats
    ELSE IF stats # NoStats THEN stats
    ELSE IF fail = 4 THEN stats
    ELSE InitialStats

\* whether the run ends at the await fail
initializeDB_rejects(cats, stats, fail) ==
    \/ fail = 1
    \/ /\ categoriesCount(cats, DOMAIN cats) = 0
       /\ \/ fail \in {2, 3}
          \/ fail = 4 /\ stats = NoStats

\* useAppInitializer: initializeDB, then the queue is loaded
useAppInitializer(fail) ==
    /\ Op
    /\ dbCategories' = initializeDB_categories(dbCategories, fail)
    /\ dbStats' = initializeDB_stats(dbCategories, dbStats, fail)
    /\ IF initializeDB_rejects(dbCategories, dbStats, fail)
       THEN /\ lastCall' = Call("initializeDB", 0, "error")
            /\ UNCHANGED <<todaysPhrases, currentPhraseIndex>>
       ELSE /\ lastCall' = Call("initializeDB", 0, "ok")
            /\ todaysPhrases' = getTodaysPhrases(dbPhrases, now)
            /\ currentPhraseIndex' = 0
    /\ UNCHANGED <<now, dbPhrases, usedIds, phrases, error, statsCache,
                   statsCacheTimestamp, dbBackups, pc, locals,
                   reminderTimerId, timers>>

\* a database with no record in any table
InitStartup ==
    /\ now = StartDay * MinutesPerDay
    /\ dbPhrases = << >>
    /\ dbStats = NoStats
    /\ dbCategories = [c \in DefaultCategories |-> 0]
    /\ usedIds = {}
    /\ phrases = << >>
    /\ todaysPhrases = << >>
    /\ currentPhraseIndex = 0
    /\ error = NoError
    /\ statsCache = NoCache
    /\ statsCacheTimestamp = 0
    /\ lastCall = [op |-> "init", id |-> 0, result |-> "ok", args |-> << >>]
    /\ ops = 0
    /\ dbBackups = << >>
    /\ pc = << >>
    /\ locals = << >>
    /\ reminderTimerId = NoTimer
    /\ timers = << >>

AppStart == \E fail \in InitSteps : useAppInitializer(fail)

NextStartup ==
    \/ Tick
    \/ AppStart
    \/ AddPhraseSubmit
    \/ ReviewCardSelect
    \/ EditPhraseDelete

SpecStartup == InitStartup /\ [][NextStartup]_vars

----------------------------------------------------------------------------
(* The daily reminder (NotificationService) *)

\* the timers the session may create
MaxTimers == 3

\* the reminder times of the settings page, as minutes of the day
ReminderTimes == DayMinutes

NoPending(tm) == \A id \in DOMAIN tm : tm[id].status # "pending"

\* scheduledTime of scheduleNextReminder: today's hour:minute, or
\* tomorrow's when that is not after now
scheduledTime(t, hm) ==
    LET today == DayOf(t) * MinutesPerDay + hm
    IN  IF today <= t THEN today + MinutesPerDay ELSE today

\* setTimeout(callback, delay): a new timer under the next id
setTimeout(tm, at) ==
    [id \in DOMAIN tm \cup {Cardinality(DOMAIN tm) + 1} |->
        IF id \in DOMAIN tm THEN tm[id] ELSE [status |-> "pending", at |-> at]]

\* clearTimeout(id): a pending timer is dropped, any other id is ignored
clearTimeout(tm, id) ==
    [i \in DOMAIN tm |->
        IF i = id /\ tm[i].status = "pending"
        THEN [tm[i] EXCEPT !.status = "cleared"] ELSE tm[i]]

\* the timers after `if (this.reminderTimerId) clearTimeout(...)`
clearReminder(tm, timerId) ==
    IF timerId # NoTimer THEN clearTimeout(tm, timerId) ELSE tm

\* notificationService.setDailyReminder(hour, minute)
setDailyReminder(hm) ==
    /\ Op
    /\ Cardinality(DOMAIN timers) < MaxTimers
    /\ LET cleared == clearReminder(timers, reminderTimerId) IN
       /\ timers' = setTimeout(cleared, scheduledTime(now, hm))
       /\ reminderTimerId' = Cardinality(DOMAIN timers) + 1
       /\ locals' = [id \in DOMAIN locals \cup {Cardinality(DOMAIN timers) + 1} |->
                        IF id \in DOMAIN locals THEN locals[id] ELSE hm]
    /\ lastCall' = Call("setDailyReminder", Cardinality(DOMAIN timers) + 1, "ok")
    /\ UNCHANGED <<now, dbPhrases, dbStats, usedIds, phrases, todaysPhrases,
                   currentPhraseIndex, error, statsCache, statsCacheTimestamp,
                   dbBackups, dbCategories, pc>>

\* notificationService.cancelDailyReminder()
cancelDailyReminder ==
    /\ Op
    /\ timers' = clearReminder(timers, reminderTimerId)
    /\ reminderTimerId' = NoTimer
    /\ lastCall' = Call("cancelDailyReminder", reminderTimerId, "ok")
    /\ UNCHANGED <<now, dbPhrases, dbStats, usedIds, phrases, todaysPhrases,
                   currentPhraseIndex, error, statsCache, statsCacheTimestamp,
                   dbBackups, dbCategories, pc, locals>>

\* a timer fires: its callback starts and is suspended in
\* await this.showNotification(...)
TimerFires(id) ==
    /\ id \in DOMAIN timers
    /\ timers[id].status = "pending"
    /\ now >= timers[id].at
    /\ timers' = [timers EXCEPT ![id].status = "fired"]
    /\ pc' = [i \in DOMAIN pc \cup {id} |->
                 IF i = id THEN "showNotification" ELSE pc[i]]
    /\ lastCall' = Call("reminderCallback", id, "suspended")
    /\ UNCHANGED <<now, ops, dbPhrases, dbStats, usedIds, phrases,
                   todaysPhrases, currentPhraseIndex, error, statsCache,
                   statsCacheTimestamp, dbBackups, dbCategories, locals,
                   reminderTimerId>>

\* showNotification settles: when it resolved the callback goes on to
\* scheduleNextReminder(), when it rejected the callback ends there
CallbackResumes(id, resolved) ==
    /\ id \in DOMAIN pc
    /\ pc[id] = "showNotification"
    /\ pc' = [pc EXCEPT ![id] = "done"]
    /\ IF resolved
       THEN /\ Cardinality(DOMAIN timers) < MaxTimers
            /\ timers' = setTimeout(timers, scheduledTime(now, locals[id]))
            /\ reminderTimerId' = Cardinality(DOMAIN timers) + 1
            /\ locals' = [i \in DOMAIN locals \cup {Cardinality(DOMAIN timers) + 1} |->
                             IF i \in DOMAIN locals THEN locals[i] ELSE locals[id]]
            /\ lastCall' = Call("reminderCallback", id, "ok")
       ELSE /\ UNCHANGED <<timers, reminderTimerId, locals>>
            /\ lastCall' = Call("reminderCallback", id, "error")
    /\ UNCHANGED <<now, ops, dbPhrases, dbStats, usedIds, phrases,
                   todaysPhrases, currentPhraseIndex, error, statsCache,
                   statsCacheTimestamp, dbBackups, dbCategories>>

\* the settings page: notifications switched on with a time, or off
SettingsEffect ==
    \/ \E hm \in ReminderTimes : setDailyReminder(hm)
    \/ cancelDailyReminder

ReminderCallback ==
    \/ \E id \in 1..MaxTimers : TimerFires(id)
    \/ \E id \in 1..MaxTimers, resolved \in BOOLEAN : CallbackResumes(id, resolved)

NextReminder ==
    \/ Tick
    \/ SettingsEffect
    \/ ReminderCallback

SpecReminder == Init /\ [][NextReminder]_vars

----------------------------------------------------------------------------
(* Overlapping reviews: handleIntervalSelect suspended at its awaits *)

\* the numbers of due phrases of the stored collection
OverlapSizes == 1..2

\* the calls of handleIntervalSelect at label
CallsAt(label) == { c \in DOMAIN pc : pc[c] = label }

\* a tap on an interval button of the card under the cursor: the next date
\* is computed and updatePhraseReviewDate is suspended in db.phrases.get
CardTap(interval) ==
    /\ Op
    /\ currentPhraseIndex < Len(todaysPhrases)
    /\ LET id == todaysPhrases[currentPhraseIndex + 1] IN
       /\ pc' = Append(pc, "get")
       /\ locals' = Append(locals,
              [phraseId |-> id, interval |-> interval,
               difficulty |-> DefaultDifficulty,
               nextReviewDate |-> calculateNextReviewDate(interval, now),
               reviewHistory |-> << >>])
       /\ lastCall' = Call("handleIntervalSelect", id, "suspended")
    /\ UNCHANGED <<now, dbPhrases, dbStats, usedIds, phrases, todaysPhrases,
                   currentPhraseIndex, error, statsCache, statsCacheTimestamp,
                   dbBackups, dbCategories, reminderTimerId, timers>>

\* db.phrases.get resolves: the call holds the phrase it read and is
\* suspended in db.phrases.update
PhraseRead(c) ==
    /\ c \in CallsAt("get")
    /\ IF found(dbPhrases, locals[c].phraseId)
       THEN /\ pc' = [pc EXCEPT ![c] = "update"]
            /\ locals' = [locals EXCEPT ![c].reviewHistory =
                              dbPhrases[locals[c].phraseId].reviewHistory]
            /\ lastCall' = Call("handleIntervalSelect", locals[c].phraseId, "suspended")
       ELSE /\ pc' = [pc EXCEPT ![c] = "done"]
            /\ lastCall' = Call("updatePhraseReviewDate", locals[c].phraseId,
                                "Phrase not found")
            /\ UNCHANGED locals
    /\ UNCHANGED <<now, ops, dbPhrases, dbStats, usedIds, phrases,
                   todaysPhrases, currentPhraseIndex, error, statsCache,
                   statsCacheTimestamp, dbBackups, dbCategories,
                   reminderTimerId, timers>>

\* db.phrases.update resolves: the phrase read earlier with one more record
\* is stored, the call is suspended in stats.modify
PhraseWritten(c) ==
    /\ c \in CallsAt("update")
    /\ dbPhrases' = phrasesUpdate(dbPhrases, locals[c].phraseId,
           [nextReviewDate |-> locals[c].nextReviewDate,
            reviewHistory |-> appendReview(locals[c].reviewHistory,
                ReviewRecord(now, locals[c].interval, locals[c].difficulty))],
           TRUE)
    /\ pc' = [pc EXCEPT ![c] = "modify"]
    /\ lastCall' = Call("handleIntervalSelect", locals[c].phraseId, "suspended")
    /\ UNCHANGED <<now, ops, dbStats, usedIds, phrases, todaysPhrases,
                   currentPhraseIndex, error, statsCache, statsCacheTimestamp,
                   dbBackups, dbCategories, locals, reminderTimerId, timers>>

\* stats.modify resolves: the counter is incremented in its own
\* transaction, updatePhraseReviewDate returns and the card removes the
\* phrase from the queue
StatsModified(c) ==
    /\ c \in CallsAt("modify")
    /\ dbStats' = statsModify(dbStats,
           IF dbStats = NoStats THEN NoStats
           ELSE [totalReviews |-> dbStats.totalReviews + 1, lastReviewDate |-> now],
           TRUE)
    /\ LET q == removeReviewedPhrase(todaysPhrases, currentPhraseIndex,
                                     locals[c].phraseId)
       IN  /\ todaysPhrases' = q.todaysPhrases
           /\ currentPhraseIndex' = q.currentPhraseIndex
    /\ pc' = [pc EXCEPT ![c] = "done"]
    /\ lastCall' = CallWith("updatePhraseReviewDate", locals[c].phraseId, "ok",
                       [interval |-> locals[c].interval,
                        difficulty |-> {locals[c].difficulty}])
    /\ UNCHANGED <<now, ops, dbPhrases, usedIds, phrases, error, statsCache,
                   statsCacheTimestamp, dbBackups, dbCategories, locals,
                   reminderTimerId, timers>>

\* a stored collection of never reviewed phrases, all due and queued
InitOverlap ==
    /\ now = StartDay * MinutesPerDay
    /\ \E n \in OverlapSizes :
           /\ dbPhrases = [i \in 1..n |->
                  [nextReviewDate |-> now, reviewHistory |-> << >>]]
           /\ dbStats = [InitialStats EXCEPT !.totalPhrases = n]
           /\ usedIds = 1..n
           /\ phrases = [i \in 1..n |-> [id |-> i, nextReviewDate |-> now]]
           /\ todaysPhrases = getTodaysPhrases(dbPhrases, now)
    /\ currentPhraseIndex = 0
    /\ error = NoError
    /\ statsCache = NoCache
    /\ statsCacheTimestamp = 0
    /\ lastCall = [op |-> "init", id |-> 0, result |-> "ok", args |-> << >>]
    /\ ops = 0
    /\ Quiet

ReviewCardTap == \E interval \in PickedIntervals : CardTap(interval)

ReviewCardResumes ==
    \E c \in 1..MaxOps :
        \/ PhraseRead(c)
        \/ PhraseWritten(c)
        \/ StatsModified(c)

NextOverlap ==
    \/ moveToNextPhrase
    \/ ReviewCardTap
    \/ ReviewCardResumes

SpecOverlap == InitOverlap /\ [][NextOverlap]_vars

----------------------------------------------------------------------------
(* getStats in flight while the collection is mutated *)

\* the local variables of a call in flight: getStats keeps the stats
\* record and the phrases it read and runs on a host in time zone offset
Frame(op, id, offset) ==
    [op |-> op, id |-> id, stats |-> NoStats, phrases |-> << >>, offset |-> offset]

\* the calls of op suspended at label
Suspended(op, label) ==
    { c \in DOMAIN pc : pc[c] = label /\ locals[c].op = op }

\* store.getStats up to its first await: a valid cache is returned, else
\* the call is suspended in db.stats...first()
GetStatsCall(offset) ==
    /\ Op
    /\ IF cacheValid(statsCache, statsCacheTimestamp, now)
       THEN /\ lastCall' = Call("getStats", 0, "cached")
            /\ UNCHANGED <<pc, locals>>
       ELSE /\ pc' = Append(pc, "stats")
            /\ locals' = Append(locals, Frame("getStats", 0, offset))
            /\ lastCall' = Call("getStats", Len(pc) + 1, "suspended")
    /\ UNCHANGED <<now, dbPhrases, dbStats, usedIds, phrases, todaysPhrases,
                   currentPhraseIndex, error, statsCache, statsCacheTimestamp,
                   dbBackups, dbCategories, reminderTimerId, timers>>

\* db.stats...first() resolves; the call is suspended in db.phrases.count()
StatsFirst(c) ==
    /\ c \in Suspended("getStats", "stats")
    /\ pc' = [pc EXCEPT ![c] = "count"]
    /\ locals' = [locals EXCEPT ![c].stats = dbStats]
    /\ lastCall' = Call("getStats", c, "suspended")
    /\ UNCHANGED <<now, ops, dbPhrases, dbStats, usedIds, phrases,
                   todaysPhrases, currentPhraseIndex, error, statsCache,
                   statsCacheTimestamp, dbBackups, dbCategories,
                   reminderTimerId, timers>>

\* db.phrases.count() resolves (phrasesCount is not used); the call is
\* suspended in db.phrases.toArray()
PhrasesCount(c) ==
    /\ c \in Suspended("getStats", "count")
    /\ pc' = [pc EXCEPT ![c] = "toArray"]
    /\ lastCall' = Call("getStats", c, "suspended")
    /\ UNCHANGED <<now, ops, dbPhrases, dbStats, usedIds, phrases,
                   todaysPhrases, currentPhraseIndex, error, statsCache,
                   statsCacheTimestamp, dbBackups, dbCategories, locals,
                   reminderTimerId, timers>>

\* db.phrases.toArray() resolves: the snapshot is computed from the stats
\* record read earlier and the phrases read now, and installed
PhrasesToArray(c) ==
    /\ c \in Suspended("getStats", "toArray")
    /\ pc' = [pc EXCEPT ![c] = "done"]
    /\ locals' = [locals EXCEPT ![c].phrases = dbPhrases]
    /\ statsCache' = computeStats(locals[c].stats, dbPhrases, now, locals[c].offset)
    /\ statsCacheTimestamp' = now
    /\ lastCall' = Call("getStats", c, "computed")
    /\ UNCHANGED <<now, ops, dbPhrases, dbStats, usedIds, phrases,
                   todaysPhrases, currentPhraseIndex, error, dbBackups,
                   dbCategories, reminderTimerId, timers>>

\* store.addPhrase up to its second await: the phrase is stored and
\* appended to phrases, the call is suspended in stats.modify
AddWritten ==
    \E id \in PhraseIds \ usedIds :
        /\ Op
        /\ id = Cardinality(usedIds) + 1
        /\ usedIds' = usedIds \cup {id}
        /\ LET newPhrase == [nextReviewDate |-> calculateNextReviewDate("tomorrow", now),
                             reviewHistory |-> << >>]
           IN  /\ dbPhrases' = phrasesAdd(dbPhrases, id, newPhrase, TRUE)
               /\ phrases' = Append(phrases, [id |-> id,
                                 nextReviewDate |-> newPhrase.nextReviewDate])
        /\ pc' = Append(pc, "modify")
        /\ locals' = Append(locals, Frame("addPhrase", id, 0))
        /\ lastCall' = Call("addPhrase", id, "suspended")
        /\ UNCHANGED <<now, dbStats, todaysPhrases, currentPhraseIndex, error,
                       statsCache, statsCacheTimestamp, dbBackups,
                       dbCategories, reminderTimerId, timers>>

AddCounted_cached(c) ==
    /\ c \in Suspended("addPhrase", "modify")
    /\ dbStats' = statsModify(dbStats,
           IF dbStats = NoStats THEN NoStats
           ELSE [totalPhrases |-> dbStats.totalPhrases + 1], TRUE)
    /\ pc' = [pc EXCEPT ![c] = "done"]
    /\ lastCall' = Call("addPhrase", locals[c].id, "ok")
    /\ UNCHANGED <<now, ops, dbPhrases, usedIds, phrases, todaysPhrases,
                   currentPhraseIndex, error, statsCache, statsCacheTimestamp,
                   dbBackups, dbCategories, locals, reminderTimerId, timers>>

\* the stats.modify of addPhrase resolves: the counter is incremented and
\* the cache is invalidated
AddCounted(c) ==
    /\ c \in Suspended("addPhrase", "modify")
    /\ dbStats' = statsModify(dbStats,
           IF dbStats = NoStats THEN NoStats
           ELSE [totalPhrases |-> dbStats.totalPhrases + 1], TRUE)
    /\ statsCache' = NoCache
    /\ pc' = [pc EXCEPT ![c] = "done"]
    /\ lastCall' = Call("addPhrase", locals[c].id, "ok")
    /\ UNCHANGED <<now, ops, dbPhrases, usedIds, phrases, todaysPhrases,
                   currentPhraseIndex, error, statsCacheTimestamp, dbBackups,
                   dbCategories, locals, reminderTimerId, timers>>

\* store.deletePhrase up to its second await: the phrase is deleted and
\* filtered out of phrases, the call is suspended in stats.modify
DeleteWritten(id) ==
    /\ Op
    /\ dbPhrases' = phrasesDelete(dbPhrases, id, TRUE)
    /\ phrases' = FilterSeq(phrases, LAMBDA p : p.id # id)
    /\ pc' = Append(pc, "modify")
    /\ locals' = Append(locals, Frame("deletePhrase", id, 0))
    /\ lastCall' = Call("deletePhrase", id, "suspended")
    /\ UNCHANGED <<now, dbStats, usedIds, todaysPhrases, currentPhraseIndex,
                   error, statsCache, statsCacheTimestamp, dbBackups,
                   dbCategories, reminderTimerId, timers>>

\* the stats.modify of deletePhrase resolves: the counter is decremented
\* and the cache is invalidated
DeleteCounted(c) ==
    /\ c \in Suspended("deletePhrase", "modify")
    /\ dbStats' = statsModify(dbStats,
           IF dbStats = NoStats THEN NoStats
           ELSE [totalPhrases |-> dbStats.totalPhrases - 1], TRUE)
    /\ statsCache' = NoCache
    /\ pc' = [pc EXCEPT ![c] = "done"]
    /\ lastCall' = Call("deletePhrase", locals[c].id, "ok")
    /\ UNCHANGED <<now, ops, dbPhrases, usedIds, phrases, todaysPhrases,
                   currentPhraseIndex, error, statsCacheTimestamp, dbBackups,
                   dbCategories, locals, reminderTimerId, timers>>

\* the statistics page asks for the statistics
StatsPageLoad == \E offset \in UtcOffsets : GetStatsCall(offset)

\* an await of a getStats in flight resolves
GetStatsResumes ==
    \E c \in 1..MaxOps :
        \/ StatsFirst(c)
        \/ PhrasesCount(c)
        \/ PhrasesToArray(c)

\* the collection is mutated: a phrase is added, edited (updatePhrase has
\* one await) or deleted
Mutation ==
    \/ AddWritten
    \/ \E k \in DOMAIN phrases :
           updatePhrase(phrases[k].id, calculateNextReviewDate("tomorrow", now), TRUE)
    \/ \E k \in DOMAIN phrases : DeleteWritten(phrases[k].id)

\* the stats.modify of a mutation in flight resolves
MutationResumes ==
    \E c \in 1..MaxOps :
        \/ AddCounted(c)
        \/ DeleteCounted(c)

NextStale ==
    \/ StatsPageLoad
    \/ GetStatsResumes
    \/ Mutation
    \/ MutationResumes

SpecStale == Init /\ [][NextStale]_vars

----------------------------------------------------------------------------
(* Import (import.service, ImportDialog) *)

\* the english texts of the session: no two of them are similar
Texts == {"hello", "thanks"}

\* the numbers of rows of an import file
FileSizes == 1..2

\* the numbers of phrases stored when the session starts
StoredSizes == 0..1

\* a record of a review made the day before the session
EarlierReview == ReviewRecord((StartDay - 1) * MinutesPerDay, "tomorrow", DefaultDifficulty)

\* the rows of a CSV file: they carry the texts, no nextReviewDate and no
\* reviewHistory
FileRows == { [english |-> e] : e \in Texts }

ImportFiles == UNION { [1..n -> FileRows] : n \in FileSizes }

MergeStrategies == {"skip", "overwrite", "duplicate"}

\* convertToPhrase(row) at clock t
convertToPhrase(row, t) ==
    [english |-> row.english,
     nextReviewDate |-> IF "nextReviewDate" \in DOMAIN row THEN row.nextReviewDate ELSE t,
     reviewHistory |-> IF "reviewHistory" \in DOMAIN row THEN row.reviewHistory ELSE << >>]

\* detectDuplicates(targetPhrase, existingPhrases): the stored phrases with
\* the same english text (other texts are not similar)
detectDuplicates(targetPhrase, tbl) ==
    { i \in DOMAIN tbl : tbl[i].english = targetPhrase.english }

\* duplicates[0]: the matches are equally similar, the sort keeps them in
\* the order of toArray(), by primary key
firstDuplicate(duplicates) == CHOOSE i \in duplicates : \A j \in duplicates : i <= j

\* whether the loop body writes for this phrase
importWrites(tbl, phrase, resolution) ==
    detectDuplicates(phrase, tbl) = {} \/ resolution # "skip"

\* one pass of the loop of importPhrases, every write accepted: the table
\* and the ids used afterwards
importOne(tbl, used, phrase, resolution) ==
    LET duplicates == detectDuplicates(phrase, tbl)
        id == Cardinality(used) + 1
    IN  IF duplicates = {} \/ resolution = "duplicate"
        THEN [phrases |-> phrasesAdd(tbl, id, phrase, TRUE), usedIds |-> used \cup {id}]
        ELSE IF resolution = "overwrite"
        THEN [phrases |-> phrasesUpdate(tbl, firstDuplicate(duplicates), phrase, TRUE),
              usedIds |-> used]
        ELSE [phrases |-> tbl, usedIds |-> used]

\* the loop of importPhrases from phrase k on; fail is the pass whose write
\* is rejected
RECURSIVE importLoop(_, _, _, _, _, _)
importLoop(tbl, used, list, k, resolution, fail) ==
    IF k > Len(list)
    THEN [phrases |-> tbl, usedIds |-> used, failed |-> FALSE]
    ELSE IF fail = k /\ importWrites(tbl, list[k], resolution)
    THEN [phrases |-> tbl, usedIds |-> used, failed |-> TRUE]
    ELSE LET r == importOne(tbl, used, list[k], resolution)
         IN  importLoop(r.phrases, r.usedIds, list, k + 1, resolution, fail)

\* createImportBackup: Date.now() differs from import to import, so each
\* backup has an id of its own
createImportBackup(backups, tbl) == Append(backups, tbl)

\* the awaits of rollbackImport that can reject: none, backups.get,
\* phrases.clear, phrases.bulkAdd
RollbackSteps == 0..3

\* rollbackImport(backupId): the phrases table afterwards
rollbackImport(backups, backupId, tbl, fail) ==
    IF fail = 1 \/ backupId \notin DOMAIN backups THEN tbl
    ELSE IF fail = 2 THEN tbl
    ELSE IF fail = 3 THEN << >>
    ELSE backups[backupId]

\* store.loadPhrases: the stored phrases by primary key
toArray(tbl) ==
    [k \in 1..Cardinality(DOMAIN tbl) |->
        LET id == CHOOSE i \in DOMAIN tbl :
                      Cardinality({j \in DOMAIN tbl : j < i}) = k - 1
        IN  [id |-> id, nextReviewDate |-> tbl[id].nextReviewDate]]

\* ImportDialog.performImport: importPhrases(phrases, options), then
\* loadPhrases.  fail is the await of the try block that rejects: the write
\* of pass fail, or the stats.modify (Len(file) + 1), or none (0);
\* rollbackFail is the await of rollbackImport that rejects
performImport(file, mergeStrategy, fail, rollbackFail) ==
    /\ Op
    /\ LET list == [k \in DOMAIN file |-> convertToPhrase(file[k], now)]
           backups == createImportBackup(dbBackups, dbPhrases)
           backupId == Len(backups)
           loop == importLoop(dbPhrases, usedIds, list, 1, mergeStrategy, fail)
           failed == loop.failed \/ fail = Len(file) + 1
           written == Cardinality({ i \in DOMAIN loop.phrases :
                          i \notin DOMAIN dbPhrases \/ loop.phrases[i] # dbPhrases[i] })
       IN  /\ dbBackups' = backups
           /\ usedIds' = loop.usedIds
           /\ IF failed
              THEN /\ dbPhrases' = rollbackImport(backups, backupId, loop.phrases,
                                                  rollbackFail)
                   /\ UNCHANGED <<dbStats, phrases>>
                   /\ lastCall' = CallWith("importPhrases", 0, "error",
                          [mergeStrategy |-> mergeStrategy, written |-> written,
                           rollbackFail |-> rollbackFail])
              ELSE /\ dbPhrases' = loop.phrases
                   /\ dbStats' = statsModify(dbStats,
                          IF dbStats = NoStats THEN NoStats
                          ELSE [totalPhrases |-> Cardinality(DOMAIN loop.phrases)],
                          TRUE)
                   /\ phrases' = toArray(loop.phrases)
                   /\ lastCall' = CallWith("importPhrases", 0, "ok",
                          [mergeStrategy |-> mergeStrategy, written |-> written,
                           rollbackFail |-> 0])
    /\ UNCHANGED <<now, todaysPhrases, currentPhraseIndex, error, statsCache,
                   statsCacheTimestamp, dbCategories, pc, locals,
                   reminderTimerId, timers>>

\* a stored collection: phrase i has the i-th text and was reviewed once or
\* never
InitImport ==
    /\ now = StartDay * MinutesPerDay
    /\ \E n \in StoredSizes : \E reviewed \in SUBSET (1..n) :
           /\ dbPhrases = [i \in 1..n |->
                  [english |-> IF i = 1 THEN "hello" ELSE "thanks",
                   nextReviewDate |-> now,
                   reviewHistory |-> IF i \in reviewed THEN <<EarlierReview>>
                                     ELSE << >>]]
           /\ dbStats = [totalPhrases |-> n, totalReviews |-> Cardinality(reviewed),
                         lastReviewDate |-> IF reviewed = {} THEN -1
                                            ELSE EarlierReview.date]
           /\ usedIds = 1..n
           /\ phrases = toArray(dbPhrases)
    /\ todaysPhrases = << >>
    /\ currentPhraseIndex = 0
    /\ error = NoError
    /\ statsCache = NoCache
    /\ statsCacheTimestamp = 0
    /\ lastCall = [op |-> "init", id |-> 0, result |-> "ok", args |-> << >>]
    /\ ops = 0
    /\ Quiet

\* the import dialog with a file and a merge strategy
ImportDialog ==
    \E file \in ImportFiles, mergeStrategy \in MergeStrategies :
        \E fail \in 0..(Len(file) + 1) :
            \E rollbackFail \in IF fail = 0 THEN {0} ELSE RollbackSteps :
                performImport(file, mergeStrategy, fail, rollbackFail)

\* a review of a stored phrase recorded
ReviewStored ==
    \E id \in DOMAIN dbPhrases : RecordReview(id, "tomorrow", {}, 0)

\* a stored phrase rescheduled with the edit form
EditStored ==
    \E id \in DOMAIN dbPhrases :
        updatePhrase(id, calculateNextReviewDate("tomorrow", now), TRUE)

NextImport ==
    \/ ImportDialog
    \/ ReviewStored
    \/ EditStored

SpecImport == InitImport /\ [][NextImport]_vars

----------------------------------------------------------------------------
(* Properties *)

IsReview(call) == call.op = "updatePhraseReviewDate"

History(tbl, id) == tbl[id].reviewHistory

QueueIds == { todaysPhrases[k] : k \in DOMAIN todaysPhrases }

\* C1: right after loadTodaysPhrases the queue holds exactly the stored
\* phrases whose nextReviewDate falls on the calendar day of now or earlier,
\* each of them once.
C1_DueSetCorrect ==
    lastCall.op = "loadTodaysPhrases" =>
        /\ QueueIds = { id \in DOMAIN dbPhrases :
                            DayOf(dbPhrases[id].nextReviewDate) <= DayOf(now) }
        /\ Len(todaysPhrases) = Cardinality(QueueIds)

\* a load that returns a phrase due later today and leaves out a phrase due
\* tomorrow at 00:00
C1_Witness ==
    /\ lastCall.op = "loadTodaysPhrases"
    /\ \E id \in QueueIds : dbPhrases[id].nextReviewDate > now
    /\ \E id \in DOMAIN dbPhrases \ QueueIds :
           dbPhrases[id].nextReviewDate = (DayOf(now) + 1) * MinutesPerDay

C3_NextDateReflectsLastReview ==
    \A id \in DOMAIN dbPhrases :
        LET h == History(dbPhrases, id) IN
        h # << >> =>
            dbPhrases[id].nextReviewDate =
                calculateNextReviewDate(h[Len(h)].interval, h[Len(h)].date)

Mutations == {"addPhrase", "updatePhrase", "deletePhrase", "updatePhraseReviewDate"}

\* C4: after a completed mutation (add, update, delete, recorded review) the
\* statistics cache is invalid: it is empty or expired, or it already is the
\* snapshot of the mutated data, so that the next getStats reflects the
\* mutation.
C4_CacheInvalidAfterMutation ==
    (lastCall.op \in Mutations /\ lastCall.result = "ok") =>
        \/ statsCache = NoCache
        \/ now - statsCacheTimestamp >= CACHE_DURATION
        \/ \E offset \in UtcOffsets :
               statsCache = computeStats(dbStats, dbPhrases, now, offset)

\* C5: no stored ReviewRecord has a difficulty outside [0, 1].
C5_DifficultyInRange ==
    \A id \in DOMAIN dbPhrases :
        \A k \in DOMAIN History(dbPhrases, id) :
            History(dbPhrases, id)[k].difficulty \in 0..10

\* C6: updatePhraseReviewDate on an id that is not stored throws 'Phrase not
\* found' and leaves the phrases and the counters as they were.
C6_NotFoundChangesNothing ==
    [][ (IsReview(lastCall') /\ lastCall'.id \notin DOMAIN dbPhrases) =>
            /\ lastCall'.result = "Phrase not found"
            /\ dbPhrases' = dbPhrases
            /\ dbStats' = dbStats
      ]_vars

\* a not-found review while other phrases are stored
C6_Witness ==
    /\ IsReview(lastCall)
    /\ lastCall.result = "Phrase not found"
    /\ lastCall.id \notin DOMAIN dbPhrases
    /\ DOMAIN dbPhrases # {}

\* C7: one updatePhraseReviewDate call leaves every phrase with both its
\* reviewHistory and its nextReviewDate as they were, or with one more
\* record and the nextReviewDate of the call, also when a write is rejected.
C7_AtomicPhraseUpdate ==
    [][ IsReview(lastCall') =>
            /\ DOMAIN dbPhrases' = DOMAIN dbPhrases
            /\ \A id \in DOMAIN dbPhrases :
                   \/ /\ History(dbPhrases', id) = History(dbPhrases, id)
                      /\ dbPhrases'[id].nextReviewDate = dbPhrases[id].nextReviewDate
                   \/ /\ id = lastCall'.id
                      /\ Len(History(dbPhrases', id)) = Len(History(dbPhrases, id)) + 1
                      /\ dbPhrases'[id].nextReviewDate =
                             calculateNextReviewDate(lastCall'.args.interval, now)
      ]_vars

\* a review of a stored phrase whose phrase write was rejected: the phrase
\* has no record and still the nextReviewDate addPhrase gave it
C7_Witness ==
    /\ IsReview(lastCall) /\ lastCall.result = "error"
    /\ lastCall.id \in DOMAIN dbPhrases
    /\ History(dbPhrases, lastCall.id) = << >>
    /\ dbPhrases[lastCall.id].nextReviewDate #
           calculateNextReviewDate(lastCall.args.interval, now)

\* C8: an updatePhraseReviewDate call that ends in an error has written
\* nothing: the phrases and the counters are as before the call.
C8_NoHalfAppliedReview ==
    [][ (IsReview(lastCall') /\ lastCall'.result # "ok") =>
            /\ dbPhrases' = dbPhrases
            /\ dbStats' = dbStats
      ]_vars

\* C9: getRecommendedInterval returns one of the five interval names.
C9_RecommendationIsAnInterval ==
    lastCall.op = "getRecommendedInterval" => lastCall.result \in Intervals

Ladder == <<"tomorrow", "three_days", "one_week", "two_weeks", "one_month">>

Rung(interval) == CHOOSE k \in DOMAIN Ladder : Ladder[k] = interval

Scheduled == lastCall.op = "calculateNextReviewDate"

\* C11: calculateNextReviewDate adds whole days for an interval of at most
\* 7 days, whole weeks for one of at most 14 days and calendar months
\* beyond: tomorrow is now + 1 day, three_days now + 3 days, one_week now +
\* 7 days, two_weeks now + 14 days, and one_month the same day of the next
\* calendar month (its last day when it is shorter), at the same time of day.
C11_SteppedPolicy ==
    Scheduled =>
        LET i == lastCall.args.interval
            r == lastCall.args.nextReviewDate
            d == DayOf(now)
            nextMonth == (MonthOf(d) % 12) + 1
        IN  /\ i = "tomorrow" => r = now + 1 * MinutesPerDay
            /\ i = "three_days" => r = now + 3 * MinutesPerDay
            /\ i = "one_week" => r = now + 7 * MinutesPerDay
            /\ i = "two_weeks" => r = now + 2 * 7 * MinutesPerDay
            /\ i = "one_month" =>
                   /\ MinuteOf(r) = MinuteOf(now)
                   /\ MonthOf(DayOf(r)) = nextMonth
                   /\ DayOfMonth(DayOf(r)) = Min(DayOfMonth(d), MonthLengths[nextMonth])
                   /\ DayOf(r) > d /\ DayOf(r) - d <= 31

\* one_month from 31 January gives 28 February
C11_Witness ==
    /\ Scheduled
    /\ lastCall.args.interval = "one_month"
    /\ DayOf(now) = 30
    /\ DayOf(lastCall.args.nextReviewDate) = 31 + 28 - 1

\* C12: at a fixed reference time an interval of more days never gives an
\* earlier review date than an interval of fewer days.
C12_IntervalMonotonicity ==
    Scheduled =>
        \A other \in Intervals :
            /\ getDays(other) > getDays(lastCall.args.interval) =>
                   lastCall.args.nextReviewDate <= calculateNextReviewDate(other, now)
            /\ getDays(other) < getDays(lastCall.args.interval) =>
                   lastCall.args.nextReviewDate >= calculateNextReviewDate(other, now)

\* two_weeks from 31 January: 14 February, with one_month giving 28 February
C12_Witness ==
    /\ Scheduled
    /\ lastCall.args.interval = "two_weeks"
    /\ DayOf(now) = 30
    /\ DayOf(calculateNextReviewDate("one_month", now))
           - DayOf(lastCall.args.nextReviewDate) = 14

RECURSIVE RecordsIn(_, _)
RecordsIn(tbl, ids) ==
    IF ids = {} THEN 0
    ELSE LET id == CHOOSE i \in ids : TRUE
         IN  Len(tbl[id].reviewHistory) + RecordsIn(tbl, ids \ {id})

CounterConsistent(stats, tbl) ==
    stats # NoStats => stats.totalReviews = RecordsIn(tbl, DOMAIN tbl)

\* C13: the persisted totalReviews equals the number of ReviewRecords over
\* all stored phrases: every operation that completes without an error
\* takes a state where the two agree to a state where they agree.
C13_CounterConsistent ==
    [][ (CounterConsistent(dbStats, dbPhrases) /\ lastCall'.result \notin {"error", "Phrase not found"}) =>
            CounterConsistent(dbStats', dbPhrases')
      ]_vars

C15_AverageMastery ==
    (lastCall.op = "getStats" /\ lastCall.result = "computed" /\ DOMAIN dbPhrases # {}) =>
        LET n == Cardinality(DOMAIN dbPhrases)
            d == [id \in DOMAIN dbPhrases |->
                     IF History(dbPhrases, id) = << >> THEN 5
                     ELSE History(dbPhrases, id)[Len(History(dbPhrases, id))].difficulty]
            S == SumOver(d, DOMAIN dbPhrases)
        IN  \* the nearest integer to 10 * S / n, halves upwards
            /\ 2 * n * statsCache.averageMastery <= 20 * S + n
            /\ 2 * n * statsCache.averageMastery > 20 * S - n

\* C16: a computing getStats reports as monthlyReviews the number of stored
\* ReviewRecords whose date lies in the calendar month of now, from 00:00 of
\* its first day to the end of its last day.
C16_MonthlyReviews ==
    (lastCall.op = "getStats" /\ lastCall.result = "computed") =>
        statsCache.monthlyReviews =
            SumOver([id \in DOMAIN dbPhrases |->
                        Cardinality({ r \in DOMAIN History(dbPhrases, id) :
                            LET day == DayOf(History(dbPhrases, id)[r].date) IN
                            /\ day \div DaysPerYear = DayOf(now) \div DaysPerYear
                            /\ MonthOf(day) = MonthOf(DayOf(now)) })],
                    DOMAIN dbPhrases)

\* C17: a computing getStats returns 30 dailyStats entries, for the local
\* calendar days from 29 days ago to today, oldest first; the entry of day D
\* counts the phrases with a ReviewRecord made on day D.
C17_DailyStats ==
    (lastCall.op = "getStats" /\ lastCall.result = "computed") =>
        LET daily == statsCache.dailyStats IN
        /\ Len(daily) = 30
        /\ \A k \in 1..30 :
               /\ daily[k].date = DayOf(now) - 30 + k
               /\ daily[k].count =
                      Cardinality({ id \in DOMAIN dbPhrases :
                          \E r \in DOMAIN History(dbPhrases, id) :
                              DayOf(History(dbPhrases, id)[r].date) = daily[k].date })

\* C20: updatePhrase or deletePhrase with an id that is not stored reports
\* a failure (to the caller or in the store's error state) and leaves the
\* phrases and the counters unchanged.
C20_NotFoundSurfaced ==
    [][ (lastCall'.op \in {"updatePhrase", "deletePhrase"} /\ lastCall'.id \notin DOMAIN dbPhrases) =>
            /\ lastCall'.result # "ok" \/ (error' # NoError /\ error' # error)
            /\ dbPhrases' = dbPhrases
            /\ dbStats' = dbStats
      ]_vars

\* C18: masteryLevels counts every stored phrase in exactly one bucket:
\* beginner for 0 to 2 records, intermediate for 3 to 5, advanced for 6 or
\* more; the three counts add up to the number of phrases.
C18_MasteryPartition ==
    (lastCall.op = "getStats" /\ lastCall.result = "computed") =>
        LET levels == statsCache.masteryLevels
            len(id) == Len(History(dbPhrases, id))
        IN  /\ levels.beginner = Cardinality({ id \in DOMAIN dbPhrases : len(id) \in 0..2 })
            /\ levels.intermediate = Cardinality({ id \in DOMAIN dbPhrases : len(id) \in 3..5 })
            /\ levels.advanced = Cardinality({ id \in DOMAIN dbPhrases : len(id) >= 6 })
            /\ levels.beginner + levels.intermediate + levels.advanced
                   = Cardinality(DOMAIN dbPhrases)

\* two phrases with 1 and 6 records: {beginner: 1, intermediate: 0, advanced: 1}
C18_Witness ==
    /\ lastCall.op = "getStats" /\ lastCall.result = "computed"
    /\ \E a, b \in DOMAIN dbPhrases :
           Len(History(dbPhrases, a)) = 1 /\ Len(History(dbPhrases, b)) = 6
    /\ Cardinality(DOMAIN dbPhrases) = 2
    /\ statsCache.masteryLevels = [beginner |-> 1, intermediate |-> 0, advanced |-> 1]

WindowOf(h) ==
    LET n == Len(h)
        w == Min(5, n)
    IN  [k \in 1..w |->
            IF k = w THEN h[n]
            ELSE [h[n - w + k] EXCEPT !.interval = "tomorrow"]]

\* C23: the recommendation depends only on the difficulties of the last
\* min(5, n) records and on the interval of the last record: it is the
\* recommendation for those records alone, whatever the older records and
\* the other intervals are.
C23_WindowOnly ==
    lastCall.op = "getRecommendedInterval" =>
        lastCall.result = getRecommendedInterval(WindowOf(History(dbPhrases, lastCall.id)))

\* six records, the oldest the only hard one and outside the window: the
\* interval is promoted as for five easy reviews
C23_Witness ==
    /\ lastCall.op = "getRecommendedInterval"
    /\ LET h == History(dbPhrases, lastCall.id) IN
       /\ Len(h) = 6
       /\ h[1].difficulty = 10
       /\ \A k \in 2..6 : h[k].difficulty = 0
       /\ h[5].interval = "one_week"
       /\ h[6].interval = "tomorrow"
       /\ lastCall.result = "three_days"

\* C26: a review completed through the review card takes the phrase out of
\* the queue and gives it a nextReviewDate on a later calendar day, so no
\* load of the queue on the same day returns it.
C26_ReviewedNotShownAgain ==
    [][ (IsReview(lastCall') /\ lastCall'.result = "ok") =>
            LET id == lastCall'.id IN
            /\ \A k \in DOMAIN todaysPhrases' : todaysPhrases'[k] # id
            /\ DayOf(dbPhrases'[id].nextReviewDate) > DayOf(now)
            /\ \A t \in ClockValues :
                   DayOf(t) = DayOf(now) =>
                       \A k \in DOMAIN getTodaysPhrases(dbPhrases', t) :
                           getTodaysPhrases(dbPhrases', t)[k] # id
      ]_vars

\* the first of two due phrases reviewed for tomorrow in the last minute of
\* the day: the other one is still queued
C26_Witness ==
    /\ IsReview(lastCall) /\ lastCall.result = "ok"
    /\ lastCall.args.interval = "tomorrow"
    /\ MinuteOf(now) = MinutesPerDay - 1
    /\ Len(todaysPhrases) = 1
    /\ lastCall.id \notin QueueIds
    /\ dbPhrases[lastCall.id].nextReviewDate = now + MinutesPerDay

CursorInRange(index, queue) == 0 <= index /\ index <= Max(0, Len(queue) - 1)

\* C27: the cursor stays within the queue, 0 <= currentPhraseIndex <=
\* max(0, length - 1); moveToNextPhrase on the last phrase leaves it where
\* it is; removing the phrase under the cursor at the end of the queue
\* moves the cursor to the new last phrase.
C27_CursorInRange ==
    /\ CursorInRange(currentPhraseIndex, todaysPhrases)
    /\ [][ /\ CursorInRange(currentPhraseIndex', todaysPhrases')
           /\ (lastCall'.op = "moveToNextPhrase" /\ currentPhraseIndex = Len(todaysPhrases) - 1) =>
                  currentPhraseIndex' = currentPhraseIndex
           /\ (/\ IsReview(lastCall') /\ lastCall'.result = "ok"
               /\ Len(todaysPhrases) >= 2
               /\ currentPhraseIndex = Len(todaysPhrases) - 1) =>
                  currentPhraseIndex' = Len(todaysPhrases') - 1
         ]_vars

\* the last of three queued phrases reviewed: the cursor is on the second
C27_Witness ==
    /\ IsReview(lastCall) /\ lastCall.result = "ok"
    /\ Len(todaysPhrases) = 2
    /\ currentPhraseIndex = 1
    /\ lastCall.id > todaysPhrases[2]

TotalPhrasesMatches(stats, tbl) ==
    /\ stats # NoStats
    /\ stats.totalPhrases = Cardinality(DOMAIN tbl)
    /\ stats.totalPhrases >= 0

\* C25: the persisted totalPhrases equals the number of stored phrases and
\* is never negative: every addPhrase and deletePhrase that completes
\* without an error, the id stored or not, takes a state where the counter
\* matches the store to a state where it matches.
C25_TotalPhrasesMatches ==
    [][ (/\ TotalPhrasesMatches(dbStats, dbPhrases)
         /\ lastCall'.op \in {"addPhrase", "deletePhrase"}
         /\ lastCall'.result = "ok") =>
            TotalPhrasesMatches(dbStats', dbPhrases')
      ]_vars

Initialised(stats, cats) ==
    /\ stats # NoStats
    /\ \A c \in DOMAIN cats : cats[c] = 1

\* C30: after a run of initializeDB that completed, whatever the store held
\* when it started, the stats table holds the 'main' record and each
\* default category exists exactly once.
C30_InitializedComplete ==
    [][ (lastCall'.op = "initializeDB" /\ lastCall'.result = "ok") =>
            Initialised(dbStats', dbCategories') ]_vars

\* C29: cancelDailyReminder is final: when it returns no reminder timer is
\* pending, and from then on no step other than setDailyReminder arms one.
C29_CancelFinal ==
    [][ /\ lastCall'.op = "cancelDailyReminder" => NoPending(timers')
        /\ (reminderTimerId = NoTimer /\ lastCall'.op # "setDailyReminder") =>
               NoPending(timers')
      ]_vars

\* the calls of handleIntervalSelect made for phrase id
CallsFor(id) == { c \in DOMAIN pc : locals[c].phraseId = id }

\* C24: once every review call in flight has completed, each phrase's
\* reviewHistory holds one record per call made for it and totalReviews
\* counts every call: two overlapping calls for one phrase leave two
\* records and a counter of two.
C24_NoLostReview ==
    (\A c \in DOMAIN pc : pc[c] = "done") =>
        /\ \A id \in DOMAIN dbPhrases :
               Len(dbPhrases[id].reviewHistory) = Cardinality(CallsFor(id))
        /\ dbStats.totalReviews = Len(pc)

\* no call is in flight
Quiescent == \A c \in DOMAIN pc : pc[c] = "done"

\* C22: once every call has completed, a statsCache that is not null was
\* computed by a getStats from the phrase collection as it is stored now,
\* every completed mutation included: no getStats installs, after a
\* mutation's invalidation, a result computed from phrases read before it.
C22_NoStaleSnapshot ==
    (Quiescent /\ statsCache # NoCache) =>
        \E c \in DOMAIN pc :
            /\ locals[c].op = "getStats"
            /\ locals[c].phrases = dbPhrases
            /\ statsCache = computeStats(locals[c].stats, dbPhrases,
                                statsCacheTimestamp, locals[c].offset)

\* a getStats that read the stats record, was overtaken by a whole
\* addPhrase and then read the phrases: its snapshot is installed after
\* the invalidation and covers the added phrase
C22_Witness ==
    /\ Quiescent
    /\ statsCache # NoCache
    /\ \E c, m \in DOMAIN pc :
           /\ c < m
           /\ locals[c].op = "getStats"
           /\ locals[m].op = "addPhrase"
           /\ locals[m].id \in DOMAIN locals[c].phrases
           /\ locals[c].stats # dbStats
           /\ locals[c].phrases = dbPhrases

IsPrefix(s, t) == Len(s) <= Len(t) /\ \A k \in DOMAIN s : s[k] = t[k]

\* C21: reviewHistory is append-only at the store level: whatever operation
\* completes (a recorded review, updatePhrase, an import with any merge
\* strategy), a phrase that stays in the store has its earlier
\* reviewHistory as a prefix of its later one.
C21_HistoryAppendOnly ==
    [][ lastCall'.result = "ok" =>
            \A id \in DOMAIN dbPhrases \cap DOMAIN dbPhrases' :
                IsPrefix(dbPhrases[id].reviewHistory, dbPhrases'[id].reviewHistory)
      ]_vars

\* C28: import is all-or-nothing: when importPhrases returns an error
\* after phrases were added or overwritten, the phrases table is the one
\* it held when importPhrases was called and totalPhrases is unchanged.
C28_ImportAllOrNothing ==
    [][ (/\ lastCall'.op = "importPhrases"
         /\ lastCall'.result = "error"
         /\ lastCall'.args.written > 0) =>
            /\ dbPhrases' = dbPhrases
            /\ dbStats'.totalPhrases = dbStats.totalPhrases
      ]_vars

====
